---- MODULE Spec2Model ----
(***************************************************************************)
(* A model of slop-rs: the SLOP document (src/src/slop.rs), its values     *)
(* (src/src/value.rs) and its errors (src/src/error.rs).                   *)
(*                                                                         *)
(* Text is modelled as a sequence of one-character strings, so that        *)
(* splitting, cleaning, parsing and rendering are computed character by    *)
(* character as the code computes them.                                    *)
(***************************************************************************)
EXTENDS Integers, Sequences, FiniteSets, TLC

\* ------------------------------------------------------------------ bounds

\* Longest input text (in characters) enumerated exhaustively by SpecParse.
MaxTextLen == 5

\* Longest list value handed to insert / insert_unchecked by Spec.
MaxListLen == 2

\* ------------------------------------------------------------- characters

CR == "\r"
LF == "\n"

\* The characters the parser treats specially, one ordinary character, and
\* the line separator.
Alphabet == {"a", "=", "{", "}", " ", "#", CR, LF}

\* char::is_whitespace, restricted to the characters that occur here.
IsWhitespace(c) == c \in {" ", CR, LF, "\t"}

\* ---------------------------------------------------------------- strings

\* str::ends_with(c)
EndsWith(s, c) == Len(s) > 0 /\ s[Len(s)] = c

\* str::starts_with(c)
StartsWith(s, c) == Len(s) > 0 /\ s[1] = c

\* str::chars().any(|x| x == c)
Contains(s, c) == \E k \in 1..Len(s) : s[k] = c

\* str::find(c), 1-based; 0 when c does not occur.
FirstIndex(s, c) ==
    IF Contains(s, c)
    THEN CHOOSE k \in 1..Len(s) : s[k] = c /\ \A m \in 1..(k - 1) : s[m] # c
    ELSE 0

\* str::strip_suffix(c).unwrap_or(s): at most ONE trailing c is removed.
StripSuffixOr(s, c) == IF EndsWith(s, c) THEN SubSeq(s, 1, Len(s) - 1) ELSE s

\* str::trim_start(): every leading whitespace character is removed.
TrimStart(s) ==
    IF \A k \in 1..Len(s) : IsWhitespace(s[k])
    THEN << >>
    ELSE LET f == CHOOSE k \in 1..Len(s) :
                      /\ ~IsWhitespace(s[k])
                      /\ \A m \in 1..(k - 1) : IsWhitespace(s[m])
         IN  SubSeq(s, f, Len(s))

\* str::split('\n').collect(): n separators give n + 1 lines; "" gives [""].
RECURSIVE Split(_)
Split(t) ==
    LET p == FirstIndex(t, LF)
    IN  IF p = 0 THEN << t >>
        ELSE << SubSeq(t, 1, p - 1) >> \o Split(SubSeq(t, p + 1, Len(t)))

\* [String]::join(sep)
RECURSIVE Join(_, _)
Join(l, sep) ==
    IF Len(l) = 0 THEN << >>
    ELSE IF Len(l) = 1 THEN l[1]
    ELSE l[1] \o sep \o Join(Tail(l), sep)

\* ----------------------------------------------------------------- values

\* SlopValue::String(s) and SlopValue::List(l); both carry the same fields so
\* that any two values can be compared.
StringValue(s) == [tag |-> "String", s |-> s, l |-> << >>]
ListValue(l) == [tag |-> "List", s |-> << >>, l |-> l]

\* Option<SlopValue>
NoneValue == [some |-> FALSE, v |-> StringValue(<< >>)]
SomeValue(v) == [some |-> TRUE, v |-> v]

\* impl Display for SlopValue: the compact rendering of a value.
ValueToString(v) ==
    IF v.tag = "String" THEN << "=" >> \o v.s
    ELSE << "{", LF >> \o Join(v.l, << LF >>) \o << LF, "}" >>

\* SlopValue::to_string_pretty: as the compact rendering, with 4 spaces
\* before every list item (and after the `{` line of an empty list).
Indent == << " ", " ", " ", " " >>

ValueToStringPretty(v) ==
    IF v.tag = "String" THEN << "=" >> \o v.s
    ELSE << "{", LF >> \o Indent \o Join(v.l, << LF >> \o Indent)
         \o << LF, "}" >>

\* ----------------------------------------------------------------- errors

\* SlopResult<()>: Ok, or one of the SlopError variants with its payload.
Ok == [kind |-> "Ok", idx |-> 0, str |-> << >>]
InvalidLine(n, line) == [kind |-> "InvalidLine", idx |-> n, str |-> line]
UnclosedList(n, line) == [kind |-> "UnclosedList", idx |-> n, str |-> line]
InvalidKey(key) == [kind |-> "InvalidKey", idx |-> 0, str |-> key]
NoResult == [kind |-> "None", idx |-> 0, str |-> << >>]

\* --------------------------------------------------------------- document

\* Slop::new(): the empty key -> value map.
EmptyItems == << >>

\* HashMap::get / Slop::get
Get(items, key) ==
    IF key \in DOMAIN items THEN SomeValue(items[key]) ELSE NoneValue

\* A faulty HashMap::insert: a key already present keeps its old value.
PutKeepOld(items, key, value) ==
    [k \in DOMAIN items \cup {key} |->
        IF k \in DOMAIN items THEN items[k] ELSE value]

\* HashMap::insert, the map afterwards: the key is added or overwritten and
\* every other entry is kept.
Put(items, key, value) ==
    [k \in DOMAIN items \cup {key} |-> IF k = key THEN value ELSE items[k]]

\* A faulty key test: the trailing `{` is not looked at.
KeyHasEqualsOnly(key) == Contains(key, "=")

\* A faulty key test: a `{` anywhere in the key is rejected.
KeyHasAnyBrace(key) == Contains(key, "=") \/ Contains(key, "{")

\* The key test of Slop::insert: the key contains `=` or ends with `{`.
KeyIsInvalid(key) == Contains(key, "=") \/ EndsWith(key, "{")

\* A faulty Slop::insert: the entry is stored before the key is tested.
insert_before_check(items, key, value) ==
    IF KeyIsInvalid(key)
    THEN [res |-> InvalidKey(key), prev |-> NoneValue,
          items |-> Put(items, key, value)]
    ELSE [res |-> Ok, prev |-> Get(items, key),
          items |-> Put(items, key, value)]

\* Slop::insert: the result, the previous value and the map afterwards.
insert(items, key, value) ==
    IF KeyIsInvalid(key)
    THEN [res |-> InvalidKey(key), prev |-> NoneValue, items |-> items]
    ELSE [res |-> Ok, prev |-> Get(items, key),
          items |-> Put(items, key, value)]

\* Slop::insert_unchecked: no key test.
insert_unchecked(items, key, value) ==
    [res |-> Ok, prev |-> Get(items, key), items |-> Put(items, key, value)]

\* ----------------------------------------------------------------- parser

\* A faulty clean_up_line: the trailing `\r` is not removed.
clean_up_line_keep_cr(line) == TrimStart(line)

\* clean_up_line: one trailing `\r` is removed, then leading whitespace.
clean_up_line(line) == TrimStart(StripSuffixOr(line, CR))

\* parse_string_kv: split_once('='), the key before the first `=` and the
\* value after it; none when the line holds no `=`.
parse_string_kv(line) ==
    LET p == FirstIndex(line, "=")
    IN  IF p = 0
        THEN [some |-> FALSE, key |-> << >>, value |-> StringValue(<< >>)]
        ELSE [some |-> TRUE, key |-> SubSeq(line, 1, p - 1),
              value |-> StringValue(SubSeq(line, p + 1, Len(line)))]

\* A faulty list item: the body line keeps its leading whitespace.
ListItemRaw(raw) == StripSuffixOr(raw, CR)

\* The text parse_list_kv pushes for a body line: the cleaned line.
ListItem(raw) == clean_up_line(raw)

\* A faulty count: the closer line is not counted as consumed.
SkipCountShort(i, start_index) == i - start_index - 1

\* The number of lines parse_list_kv reports as consumed when the closer is
\* at index i: i - start_index.
SkipCount(i, start_index) == i - start_index

\* A faulty error: it carries the opener's cleaned text.
UnclosedErrorCleaned(lines, start_index) ==
    UnclosedList(start_index, clean_up_line(lines[start_index + 1]))

\* The error parse_list_kv returns when the input ends inside the list: the
\* opener's index and its ORIGINAL text.
UnclosedError(lines, start_index) ==
    UnclosedList(start_index, lines[start_index + 1])

\* The for loop of parse_list_kv, from index i (0-based) on, with the items
\* collected so far.
RECURSIVE ListScan(_, _, _, _, _)
ListScan(lines, start_index, key, i, values) ==
    IF i >= Len(lines)
    THEN [err |-> UnclosedError(lines, start_index), some |-> FALSE,
          key |-> key, value |-> ListValue(<< >>), skip |-> 0]
    ELSE IF clean_up_line(lines[i + 1]) = << "}" >>
    THEN [err |-> Ok, some |-> TRUE, key |-> key,
          value |-> ListValue(values), skip |-> SkipCount(i, start_index)]
    ELSE ListScan(lines, start_index, key, i + 1,
                  Append(values, ListItem(lines[i + 1])))

\* parse_list_kv: none when the cleaned opener does not end with `{`.
parse_list_kv(lines, start_index) ==
    LET opener == clean_up_line(lines[start_index + 1])
    IN  IF ~EndsWith(opener, "{")
        THEN [err |-> Ok, some |-> FALSE, key |-> << >>,
              value |-> ListValue(<< >>), skip |-> 0]
        ELSE ListScan(lines, start_index,
                      SubSeq(opener, 1, Len(opener) - 1),
                      start_index + 1, << >>)

\* The parser's position: the map, the loop index (0-based), the skip
\* counter, where the call is ("loop", "done" or "failed") and its result.
ParserStart(items) ==
    [items |-> items, i |-> 0, skip_lines |-> 0, pc |-> "loop",
     result |-> NoResult]

Fail(st, err) == [st EXCEPT !.pc = "failed", !.result = err]

\* One iteration of the for loop of append_slop_string, at index st.i. The
\* map is whatever insert left, also when insert returned an error.
LoopBody(lines, st) ==
    IF st.skip_lines > 0
    THEN [st EXCEPT !.skip_lines = @ - 1, !.i = @ + 1]
    ELSE
    LET line == clean_up_line(lines[st.i + 1])
        skv == parse_string_kv(line)
    IN  IF line = << >> \/ StartsWith(line, "#")
        THEN [st EXCEPT !.i = @ + 1]
        ELSE IF skv.some
        THEN LET r == insert(st.items, skv.key, skv.value)
             IN  IF r.res.kind # "Ok"
                 THEN Fail([st EXCEPT !.items = r.items], r.res)
                 ELSE [st EXCEPT !.items = r.items, !.i = @ + 1]
        ELSE LET lkv == parse_list_kv(lines, st.i)
             IN  IF lkv.err.kind # "Ok" THEN Fail(st, lkv.err)
                 ELSE IF lkv.some
                 THEN LET r == insert(st.items, lkv.key, lkv.value)
                      IN  IF r.res.kind # "Ok"
                          THEN Fail([st EXCEPT !.items = r.items], r.res)
                          ELSE [st EXCEPT !.items = r.items,
                                          !.skip_lines = lkv.skip,
                                          !.i = @ + 1]
                 ELSE Fail(st, InvalidLine(st.i, line))

\* The loop's exit: every line was visited, the call returns Ok(()).
LoopExit(st) == [st EXCEPT !.pc = "done", !.result = Ok]

\* The whole loop, run from st to the call's return.
RECURSIVE RunLoop(_, _)
RunLoop(lines, st) ==
    IF st.pc # "loop" THEN st
    ELSE IF st.i >= Len(lines) THEN LoopExit(st)
    ELSE RunLoop(lines, LoopBody(lines, st))

\* Slop::append_slop_string(slop_str) on a document holding `items`.
append_slop_string(items, slop_str) ==
    RunLoop(Split(slop_str), ParserStart(items))

\* impl FromStr for Slop: a new document, then append_slop_string.
from_str(s) == append_slop_string(EmptyItems, s)

\* ------------------------------------------------------------- serializer

\* The fold of impl Display for Slop over the entries in the order `order`
\* (a sequence of the keys): key, compact value, newline.
RECURSIVE ToStringInOrder(_, _)
ToStringInOrder(items, order) ==
    IF Len(order) = 0 THEN << >>
    ELSE order[1] \o ValueToString(items[order[1]]) \o << LF >>
         \o ToStringInOrder(items, Tail(order))

\* The fold of Slop::to_string_pretty over the entries in the order `order`:
\* key, pretty value, newline.
RECURSIVE ToStringPrettyInOrder(_, _)
ToStringPrettyInOrder(items, order) ==
    IF Len(order) = 0 THEN << >>
    ELSE order[1] \o ValueToStringPretty(items[order[1]]) \o << LF >>
         \o ToStringPrettyInOrder(items, Tail(order))

\* The orders HashMap::iter may visit the keys in: every permutation.
IterOrders(items) ==
    LET keys == DOMAIN items
        n == Cardinality(keys)
    IN  {o \in [1..n -> keys] : \A a, b \in 1..n : a # b => o[a] # o[b]}

\* ------------------------------------------------------------------ state

VARIABLES
    items,       \* Slop.items: the document's key -> value map
    items0,      \* the map when the last call was made
    op,          \* the last call: its name and arguments
    lines,       \* append_slop_string: the input split into lines
    i,           \* append_slop_string: the loop index, 0-based
    skip_lines,  \* append_slop_string: the skip counter
    pc,          \* append_slop_string: "idle", "loop", "done" or "failed"
    result,      \* the Result the last call returned
    prev,        \* the Option<SlopValue> the last insert returned
    out          \* the String the last to_string returned

vars == << items, items0, op, lines, i, skip_lines, pc, result, prev, out >>

NoOp == [name |-> "none", key |-> << >>, value |-> StringValue(<< >>),
         text |-> << >>]

\* ----------------------------------------------------------------- inputs

\* Every text of at most MaxTextLen characters over the alphabet.
Texts == UNION {[1..n -> Alphabet] : n \in 0..MaxTextLen}

\* The texts the documentation and the format description use as examples.
ExampleTexts == {
    << "a", "=", "1", LF, "b", "=", "2", LF >>,
    << "l", "i", "s", "t", "{", LF, " ", " ", "x", LF,
       " ", " ", "y", LF, "}", LF >>,
    << "k", "e", "y", "{", LF, "i", "t", "e", "m", LF >>,
    << "n", "o", "t", " ", "a", " ", "k", "v", LF >>,
    << "a", "{", "b", "=", "c" >>,
    << "a", "=", "b", LF, "c", "{", LF, "d", LF, "e", LF, "}", LF >>,
    << "k", "{", LF, "x", "=", "y", LF, "#", "c", LF, LF, "z", "{", LF,
       " ", "}", CR, LF, "b", "=", "2" >>,
    << "k", "=", "v", CR, CR, LF >>,
    << " ", "k", "{", CR, LF, "x", CR, CR, LF, "}", CR, LF >>,
    << "a", "=", "1", LF, "a", "{", "{", LF, "}", LF >>
}

\* The keys handed to insert and insert_unchecked: a plain key, a key with
\* `{` not at its end, a key with `=`, a key ending with `{`.
InsKeys == {<< "a" >>, << "{", "a" >>, << "a", "=" >>, << "a", "{" >>}

\* The values handed to insert and insert_unchecked: strings, and the lists
\* of 0..MaxListLen items.
InsValues ==
    {StringValue(<< "a" >>), StringValue(<< "b" >>)}
    \cup {ListValue([k \in 1..n |-> << "a" >>]) : n \in 0..MaxListLen}

\* The texts handed to append_slop_string between inserts: a text that
\* parses, and one failing with each of the parser's errors after an entry.
AppendTexts == {
    << "a", "=", "b", LF, "{", "a", "{", LF, "a", LF, "}" >>,
    << "a", "{", LF, "}", LF, "a", "{", "{", LF, "}" >>,
    << "{", "a", "=", "a", LF, "a" >>,
    << "a", "=", "a", LF, "a", "{" >>
}

\* The most entries a document is grown to.
MaxEntries == 2

\* ---------------------------------------------------------------- actions

Init ==
    /\ items = EmptyItems
    /\ items0 = EmptyItems
    /\ op = NoOp
    /\ lines = << >>
    /\ i = 0
    /\ skip_lines = 0
    /\ pc = "idle"
    /\ result = NoResult
    /\ prev = NoneValue
    /\ out = << >>

\* slop.insert(key, value)
InsertCall(keys, values) ==
    /\ pc = "idle"
    /\ \E key \in keys, value \in values :
        /\ Cardinality(DOMAIN items \cup {key}) <= MaxEntries
        /\ LET r == insert(items, key, value)
           IN  /\ items' = r.items
               /\ result' = r.res
               /\ prev' = r.prev
        /\ op' = [name |-> "insert", key |-> key, value |-> value,
                  text |-> << >>]
    /\ items0' = items
    /\ lines' = << >>
    /\ i' = 0
    /\ skip_lines' = 0
    /\ out' = << >>
    /\ UNCHANGED pc

\* slop.insert_unchecked(key, value)
InsertUncheckedCall(keys, values) ==
    /\ pc = "idle"
    /\ \E key \in keys, value \in values :
        /\ Cardinality(DOMAIN items \cup {key}) <= MaxEntries
        /\ LET r == insert_unchecked(items, key, value)
           IN  /\ items' = r.items
               /\ result' = r.res
               /\ prev' = r.prev
        /\ op' = [name |-> "insert_unchecked", key |-> key, value |-> value,
                  text |-> << >>]
    /\ items0' = items
    /\ lines' = << >>
    /\ i' = 0
    /\ skip_lines' = 0
    /\ out' = << >>
    /\ UNCHANGED pc

\* slop.append_slop_string(text), from the call to its return.
AppendCall(texts) ==
    /\ pc = "idle"
    /\ \E t \in texts :
        LET st == append_slop_string(items, t)
        IN  /\ Cardinality(DOMAIN st.items) <= MaxEntries
            /\ items' = st.items
            /\ result' = st.result
            /\ lines' = Split(t)
            /\ i' = st.i
            /\ skip_lines' = st.skip_lines
            /\ op' = [name |-> "append_slop_string", key |-> << >>,
                      value |-> StringValue(<< >>), text |-> t]
    /\ items0' = items
    /\ prev' = NoneValue
    /\ out' = << >>
    /\ UNCHANGED pc

\* slop.to_string(), with the entries visited in one of the map's orders.
ToStringCall ==
    /\ pc \in {"idle", "done"}
    /\ op.name # "to_string"
    /\ \E order \in IterOrders(items) : out' = ToStringInOrder(items, order)
    /\ op' = [op EXCEPT !.name = "to_string"]
    /\ UNCHANGED << items, items0, lines, i, skip_lines, pc, result, prev >>

\* slop.to_string_pretty(), with the entries visited in one of the map's
\* orders.
ToStringPrettyCall ==
    /\ pc \in {"idle", "done"}
    /\ op.name # "to_string_pretty"
    /\ \E order \in IterOrders(items) :
           out' = ToStringPrettyInOrder(items, order)
    /\ op' = [op EXCEPT !.name = "to_string_pretty"]
    /\ UNCHANGED << items, items0, lines, i, skip_lines, pc, result, prev >>

\* append_slop_string is entered: the text is split and the loop starts.
AppendEnter(texts) ==
    /\ pc = "idle"
    /\ \E t \in texts :
        /\ lines' = Split(t)
        /\ op' = [name |-> "append_slop_string", key |-> << >>,
                  value |-> StringValue(<< >>), text |-> t]
    /\ i' = 0
    /\ skip_lines' = 0
    /\ pc' = "loop"
    /\ result' = NoResult
    /\ items0' = items
    /\ prev' = NoneValue
    /\ out' = << >>
    /\ UNCHANGED items

\* The parser's position as the variables hold it.
Position ==
    [items |-> items, i |-> i, skip_lines |-> skip_lines, pc |-> pc,
     result |-> result]

\* One iteration of the loop of append_slop_string.
AppendStep ==
    /\ pc = "loop"
    /\ i < Len(lines)
    /\ LET st == LoopBody(lines, Position)
       IN  /\ items' = st.items
           /\ i' = st.i
           /\ skip_lines' = st.skip_lines
           /\ pc' = st.pc
           /\ result' = st.result
    /\ UNCHANGED << items0, op, lines, prev, out >>

\* The loop ends and append_slop_string returns Ok(()).
AppendReturn ==
    /\ pc = "loop"
    /\ i >= Len(lines)
    /\ LET st == LoopExit(Position)
       IN  /\ pc' = st.pc
           /\ result' = st.result
    /\ UNCHANGED << items, items0, op, lines, i, skip_lines, prev, out >>

\* The document's interface: calls made one after another on one document.
Next ==
    \/ InsertCall(InsKeys, InsValues)
    \/ InsertUncheckedCall(InsKeys, InsValues)
    \/ AppendCall(AppendTexts)
    \/ ToStringCall

Spec == Init /\ [][Next]_vars

\* Texts longer than MaxTextLen whose lines end with more than one `\r`: a
\* list item that is `}` followed by `\r`, and a string value ending with
\* `\r` beside a list.
EdgeTexts == {
    << "k", "{", LF, "}", CR, CR, LF, "}" >>,
    << "a", "=", "b", CR, CR, LF, "k", "{", LF, "x", CR, CR, LF, "}" >>
}

\* The parser, one loop iteration at a time: a document that is new or holds
\* one entry parses one text, and a successful parse is rendered.
Preload ==
    /\ op.name = "none"
    /\ InsertCall({<< "a" >>}, {StringValue(<< "a" >>)})

NextParse ==
    \/ Preload
    \/ AppendEnter(Texts \cup ExampleTexts \cup EdgeTexts)
    \/ AppendStep
    \/ AppendReturn
    \/ ToStringCall
    \/ ToStringPrettyCall

SpecParse == Init /\ [][NextParse]_vars

\* The texts handed to append_slop_string when only checked inserts are
\* made: AppendTexts, and lines whose key would end with `{` or hold `=`.
CheckedTexts ==
    AppendTexts
    \cup {<< "a", "{", "=", "a" >>,
          << "a", "=", "=", LF, "{", "{", LF, "}" >>,
          << "{", "a", "{", LF, "a", "=", LF, "}", LF, "a", "{" >>}

\* The document's interface without insert_unchecked: insert and
\* append_slop_string only, in any order.
NextChecked ==
    \/ InsertCall(InsKeys, InsValues)
    \/ AppendCall(CheckedTexts)

SpecChecked == Init /\ [][NextChecked]_vars

\* ------------------------------------------------------- claims: helpers

\* The loop is about to interpret line i as a top-level line.
AtTopLevel == pc = "loop" /\ i < Len(lines) /\ skip_lines = 0

\* A cleaned line of the list opener shape: not blank, not a comment, without
\* `=`, ending with `{`.
IsOpener(line) ==
    /\ Len(line) > 0
    /\ line[1] # "#"
    /\ \A k \in 1..Len(line) : line[k] # "="
    /\ line[Len(line)] = "{"

\* The (0-based) indices after n of the lines whose cleaned form is `}`.
ClosersAfter(n) ==
    {j \in (n + 1)..(Len(lines) - 1) :
        TrimStart(StripSuffixOr(lines[j + 1], CR)) = << "}" >>}

FirstCloserAfter(n) ==
    CHOOSE j \in ClosersAfter(n) : \A k \in ClosersAfter(n) : j <= k

\* The loop is about to interpret line i, a list opener that has a closer.
AtClosedOpener ==
    /\ AtTopLevel
    /\ IsOpener(TrimStart(StripSuffixOr(lines[i + 1], CR)))
    /\ ClosersAfter(i) # {}

\* The key an opener line gives: the cleaned line without its final `{`.
OpenerKey(raw) ==
    LET line == TrimStart(StripSuffixOr(raw, CR))
    IN  SubSeq(line, 1, Len(line) - 1)

\* The input's first n lines as a text of their own.
PrefixText(n) == Join(SubSeq(lines, 1, n), << LF >>)

\* t with every `\n` replaced by `\r\n`.
RECURSIVE Crlf(_)
Crlf(t) ==
    IF Len(t) = 0 THEN << >>
    ELSE (IF t[1] = LF THEN << CR, LF >> ELSE << t[1] >>) \o Crlf(Tail(t))

ListExample ==
    << "l", "i", "s", "t", "{", LF, " ", " ", "x", LF,
       " ", " ", "y", LF, "}", LF >>

BraceKeyExample == << "a", "{", "b", "=", "c" >>

BodyExample ==
    << "k", "{", LF, "x", "=", "y", LF, "#", "c", LF, LF, "z", "{", LF,
       " ", "}", CR, LF, "b", "=", "2" >>

DocExample ==
    << "a", "=", "b", LF, "c", "{", LF, "d", LF, "e", LF, "}", LF >>

\* ------------------------------------------------------------------- C1

\* C1: round trip. When a text was parsed successfully into a new document
\* and the document is rendered compactly, parsing the rendering succeeds
\* and gives exactly the same key -> value map.
C1_RoundTrip ==
    (pc = "done" /\ op.name = "to_string" /\ items0 = EmptyItems)
    => LET st == from_str(out)
       IN  st.pc = "done" /\ st.items = items

\* ------------------------------------------------------------------- C2

\* C2 as stated: when a list block is parsed, each body line becomes an item
\* equal to the raw line with only a trailing `\r` removed (its leading
\* whitespace kept).
C2_ItemsKeepLeadingWhitespace ==
    [][(AtClosedOpener /\ pc' = "loop")
       => LET j == FirstCloserAfter(i)
          IN  items'[OpenerKey(lines[i + 1])] =
                  ListValue([k \in 1..(j - i - 1) |->
                                StripSuffixOr(lines[i + k + 1], CR)])]_vars

\* C2 as amended: when a list block is parsed, each body line becomes an item
\* equal to the line with one trailing `\r` removed and then all its leading
\* whitespace removed, exactly as the opener and closer lines are cleaned.
C2_ItemsAreCleaned ==
    [][(AtClosedOpener /\ pc' = "loop")
       => LET j == FirstCloserAfter(i)
          IN  items'[OpenerKey(lines[i + 1])] =
                  ListValue([k \in 1..(j - i - 1) |->
                                TrimStart(StripSuffixOr(lines[i + k + 1], CR))])]_vars

\* The indented list of the format description was parsed: its items came
\* out without their indentation.
C2_Witness ==
    /\ pc = "done"
    /\ op.text = ListExample
    /\ items0 = EmptyItems
    /\ items = (<< "l", "i", "s", "t" >> :> ListValue(<< << "x" >>, << "y" >> >>))

\* ------------------------------------------------------------------- C3

\* C3: insert(key, value) fails with InvalidKey carrying exactly the key if
\* and only if the key contains `=` or ends with `{`; every other key
\* succeeds; a failing insert leaves the map unchanged.
C3_InsertKeyValidation ==
    op.name = "insert"
    => LET bad == \/ \E k \in 1..Len(op.key) : op.key[k] = "="
                  \/ (Len(op.key) > 0 /\ op.key[Len(op.key)] = "{")
       IN  /\ bad => (result = InvalidKey(op.key) /\ items = items0)
           /\ ~bad => (result = Ok /\ op.key \in DOMAIN items)

\* An insert with a bad key failed on a document that holds an entry.
C3_Witness ==
    /\ op.name = "insert"
    /\ result.kind = "InvalidKey"
    /\ op.key = << "a", "{" >>
    /\ items # EmptyItems

\* ------------------------------------------------------------------- C4

\* C4: when append_slop_string fails at the line group starting at line i,
\* the map holds exactly what parsing the lines before i into the map of
\* before the call gives: every earlier entry kept (a later duplicate
\* overwriting an earlier one), nothing of the failing group or after it.
C4_FailureKeepsEarlierEntries ==
    pc = "failed"
    => LET st == append_slop_string(items0, PrefixText(i))
       IN  /\ st.pc = "done"
           /\ st.items = items
           /\ DOMAIN items0 \subseteq DOMAIN items

\* A parse failed after it had added an entry to a document that already
\* held one.
C4_Witness ==
    /\ pc = "failed"
    /\ i > 0
    /\ items0 # EmptyItems
    /\ DOMAIN items # DOMAIN items0

\* ------------------------------------------------------------------- C5

\* C5: when the loop reaches, as a top-level line, a list opener at line i
\* that no later line closes, the call fails there with UnclosedList carrying
\* i and the opener's original text, and the map is left as it was.
C5_UnclosedList ==
    [][(/\ AtTopLevel
        /\ IsOpener(TrimStart(StripSuffixOr(lines[i + 1], CR)))
        /\ ClosersAfter(i) = {})
       => /\ pc' = "failed"
          /\ result' = [kind |-> "UnclosedList", idx |-> i,
                        str |-> lines[i + 1]]
          /\ items' = items]_vars

\* A parse failed with UnclosedList on an opener that is not the first line
\* and whose original text differs from its cleaned text.
C5_Witness ==
    /\ pc = "failed"
    /\ result.kind = "UnclosedList"
    /\ result.idx > 0
    /\ result.str = lines[i + 1]
    /\ result.str # TrimStart(StripSuffixOr(result.str, CR))

\* ------------------------------------------------------------------- C6

\* C6 as stated: parsing the line `a{b=c` fails with InvalidKey and adds no
\* entry for `a{b`.
C6_BraceKeyRejected ==
    (op.text = BraceKeyExample /\ pc \in {"done", "failed"})
    => /\ result = InvalidKey(<< "a", "{", "b" >>)
       /\ << "a", "{", "b" >> \notin DOMAIN items

\* C6 as amended: a one-line text whose cleaned line is no comment and holds
\* `=` is split on the first `=`; the key is validated at insert: when it
\* ends with `{` the call fails with InvalidKey and adds nothing, otherwise
\* (as for `a{b=c`, whose key `a{b` is valid) the call succeeds and adds
\* key -> String(value).
C6_KeyValidatedAtInsert ==
    LET line == TrimStart(StripSuffixOr(lines[1], CR))
        p == CHOOSE k \in 1..Len(line) :
                 line[k] = "=" /\ \A m \in 1..(k - 1) : line[m] # "="
        key == SubSeq(line, 1, p - 1)
        value == SubSeq(line, p + 1, Len(line))
    IN  (/\ pc \in {"done", "failed"}
         /\ Len(lines) = 1
         /\ \E k \in 1..Len(line) : line[k] = "="
         /\ line[1] # "#")
        => IF Len(key) > 0 /\ key[Len(key)] = "{"
           THEN pc = "failed" /\ result = InvalidKey(key) /\ items = items0
           ELSE /\ pc = "done"
                /\ result = Ok
                /\ DOMAIN items = DOMAIN items0 \cup {key}
                /\ items[key] = StringValue(value)
                /\ \A k \in DOMAIN items0 \ {key} : items[k] = items0[k]

\* The line `a{b=c` was parsed: the call succeeded and the entry is there.
C6_Witness ==
    /\ op.text = BraceKeyExample
    /\ pc = "done"
    /\ result = Ok
    /\ items[<< "a", "{", "b" >>] = StringValue(<< "c" >>)

\* ------------------------------------------------------------------- C7

\* The compact text the format gives a value: `=s` for String(s); for
\* List(items) a `{` line, one line per item in order, and `}`.
ExpectedValueText(v) ==
    IF v.tag = "String" THEN << "=" >> \o v.s
    ELSE Join(<< << "{" >> >> \o v.l \o << << "}" >> >>, << LF >>)

RECURSIVE ExpectedText(_, _)
ExpectedText(m, order) ==
    IF Len(order) = 0 THEN << >>
    ELSE order[1] \o ExpectedValueText(m[order[1]]) \o << LF >>
         \o ExpectedText(m, Tail(order))

\* C7: the compact rendering of a document is, for every entry in some
\* order, the key, the compact value and a newline, where a list of n >= 0
\* items gives exactly n item lines between the `{` line and the `}` line.
C7_CompactRendering ==
    op.name = "to_string"
    => \E order \in IterOrders(items) : out = ExpectedText(items, order)

\* ------------------------------------------------------------------- C8

\* C8: a successful insert returns the value the key held before (none when
\* it held none), afterwards the key holds the inserted value, and every
\* other key holds what it held; so a second insert of a key returns the
\* first value and leaves only the second one retrievable.
C8_InsertOverwrites ==
    (op.name = "insert" /\ result = Ok)
    => /\ prev = IF op.key \in DOMAIN items0
                 THEN [some |-> TRUE, v |-> items0[op.key]]
                 ELSE NoneValue
       /\ DOMAIN items = DOMAIN items0 \cup {op.key}
       /\ items[op.key] = op.value
       /\ \A k \in DOMAIN items0 \ {op.key} : items[k] = items0[k]

\* A key that held one value was given another, beside an entry under
\* another key.
C8_Witness ==
    /\ op.name = "insert"
    /\ result = Ok
    /\ prev.some
    /\ prev.v # op.value
    /\ items[op.key] = op.value
    /\ DOMAIN items # {op.key}

\* ------------------------------------------------------------------- C9

C10_CrlfTolerance ==
    (pc = "done" /\ \A k \in 1..Len(op.text) : op.text[k] # CR)
    => LET st == append_slop_string(items0, Crlf(op.text))
       IN  st.pc = "done" /\ st.items = items

\* A text of several lines, with a string entry and a list, was parsed.
C10_Witness ==
    /\ pc = "done"
    /\ op.text = DocExample
    /\ items = (<< "a" >> :> StringValue(<< "b" >>))
               @@ (<< "c" >> :> ListValue(<< << "d" >>, << "e" >> >>))

\* ------------------------------------------------------------------ C11

\* C11: starting from an empty document, after any sequence of insert and
\* append_slop_string calls, successful or failing, no key of the document
\* contains `=` or ends with `{`.
C11_KeysStayValid ==
    \A key \in DOMAIN items :
        /\ \A k \in 1..Len(key) : key[k] # "="
        /\ ~(Len(key) > 0 /\ key[Len(key)] = "{")

\* An append_slop_string call failed with InvalidKey on a key ending with
\* `{`, after it had added an entry, and the document holds two entries.
C11_Witness ==
    /\ op.name = "append_slop_string"
    /\ result.kind = "InvalidKey"
    /\ result.str = << "a", "{" >>
    /\ i > 0
    /\ Cardinality(DOMAIN items) = 2

\* ------------------------------------------------------------------ C12

\* C12: when a text was parsed successfully into a new document, parsing the
\* document's pretty rendering succeeds and gives the same key -> value map
\* as parsing its compact rendering.
C12_PrettyParsesLikeCompact ==
    (pc = "done" /\ op.name = "to_string_pretty" /\ items0 = EmptyItems)
    => LET p == from_str(out)
       IN  /\ p.pc = "done"
           /\ \A order \in IterOrders(items) :
                  from_str(ToStringInOrder(items, order)).items = p.items

====
